---------------------------- MODULE Spec2Model ----------------------------
(***************************************************************************)
(* Model of the glTF 2.0 root aggregate (src/src/v2/mod.rs), the skin      *)
(* entity (src/src/v2/skin.rs) and the two enumeration codecs              *)
(* (src/src/macros.rs).                                                    *)
(*                                                                         *)
(* A document is a parsed JSON tree.  Integers that the code handles as    *)
(* u32 / u64 are kept as tuples of 16-bit limbs, most significant first    *)
(* (u32 = <<hi, lo>>, u64 = <<l3, l2, l1, l0>>), so that the casts         *)
(* `as u32`, `as u64` and `as usize` act on the full width.                *)
(*                                                                         *)
(* A JSON object is a function from its keys to values: key order and      *)
(* repeated keys are not modelled.  Where a struct is expected the inputs  *)
(* hold an object or null (the positional array form the derived           *)
(* Deserialize also reads is not among the inputs).  Entities whose        *)
(* definitions lie outside the three files are opaque objects, told apart  *)
(* by an id.                                                               *)
(***************************************************************************)
EXTENDS Integers, Sequences, FiniteSets, TLC

VARIABLES input, pc, result, fetched, encoded

vars == <<input, pc, result, fetched, encoded>>

(***************************************************************************)
(* Bounds of the model.                                                    *)
(***************************************************************************)
MaxLen == 2
MaxIdx == 2
MaxJoints == 1
MaxPresent == 1
MaxTable == 3

(***************************************************************************)
(* Fixed-width integers.                                                   *)
(***************************************************************************)
LimbMax == 2^16 - 1

\* a small natural as u64 / u32
U64Of(n) == <<0, 0, 0, n>>
U32Of(n) == <<0, n>>

\* `value as u16 as u32` on a u64: the low 16 bits
AsU32Trunc16(v) == <<0, v[4]>>

\* `value as u32` on a u64: the low 32 bits
AsU32(v) == <<v[3], v[4]>>

\* `value as u64` on a u32: zero extension
AsU64(w) == <<0, 0, w[1], w[2]>>

(***************************************************************************)
(* JSON values.                                                            *)
(***************************************************************************)
JNull == [t |-> "null"]
JStr(s) == [t |-> "str", s |-> s]
JU64(n) == [t |-> "u64", n |-> n]
JNeg == [t |-> "i64"]
JArr(s) == [t |-> "arr", a |-> s]
JObj(f) == [t |-> "obj", o |-> f]
\* a schema-valid object of an entity kind whose definition lies outside
\* the modelled files; id tells two such objects apart
JEnt(id) == [t |-> "ent", id |-> id]

NoKeys == [k \in {} |-> TRUE]
Has(f, k) == k \in DOMAIN f

(***************************************************************************)
(* Rust values.                                                            *)
(***************************************************************************)
None == [some |-> FALSE]
Some(x) == [some |-> TRUE, v |-> x]
Ok(x) == [ok |-> TRUE, v |-> x]
Fail == [ok |-> FALSE]
Nothing == [tag |-> "nothing"]

Range(s) == {s[i] : i \in DOMAIN s}

(***************************************************************************)
(* Typed Index.                                                            *)
(***************************************************************************)
\* Index::new; the kind is the PhantomData type parameter
IndexNew(kind, value) == [kind |-> kind, raw |-> value]

\* Index::value
IndexValue(ix) == ix.raw

\* visit_u64 narrowing to 16 bits instead of 32
IndexVisitU64Narrow(kind, value) == Ok(IndexNew(kind, AsU32Trunc16(value)))

\* Visitor::visit_u64 of Index
IndexVisitU64(kind, value) == Ok(IndexNew(kind, AsU32(value)))

\* Index::deserialize: deserialize_u64 hands a non-negative JSON integer to
\* visit_u64; every other JSON value reaches a default visit_* method of the
\* visitor, which is an invalid-type error
IndexDeserialize(kind, j) ==
    IF j.t = "u64" THEN IndexVisitU64(kind, j.n) ELSE Fail

\* Index::serialize
IndexSerialize(ix) == JU64(AsU64(IndexValue(ix)))


(***************************************************************************)
(* Field decoders shared by the derived Deserialize impls.                 *)
(***************************************************************************)
\* Vec<T>, from the results of decoding the elements of the JSON array: the
\* Vec of the elements if every one decoded
VecCollect(r) ==
    IF \A i \in DOMAIN r : r[i].ok THEN Ok([i \in DOMAIN r |-> r[i].v])
    ELSE Fail

\* Option<String>: a missing key or null is None
OptStringField(f, k) ==
    IF ~Has(f, k) THEN Ok(None)
    ELSE IF f[k].t = "null" THEN Ok(None)
    ELSE IF f[k].t = "str" THEN Ok(Some(f[k].s))
    ELSE Fail

\* Extensions / Extras = Option<HashMap<String, serde_json::Value>>:
\* any JSON object, whatever its keys
UntypedField(f, k) ==
    IF ~Has(f, k) THEN Ok(None)
    ELSE IF f[k].t = "null" THEN Ok(None)
    ELSE IF f[k].t = "obj" THEN Ok(Some(f[k].o))
    ELSE Fail

\* Option<Index<T>>
OptIndexField(f, k, kind) ==
    IF ~Has(f, k) THEN Ok(None)
    ELSE IF f[k].t = "null" THEN Ok(None)
    ELSE LET r == IndexDeserialize(kind, f[k])
         IN IF r.ok THEN Ok(Some(r.v)) ELSE Fail

\* String
StringDeserialize(j) == IF j.t = "str" THEN Ok(j.s) ELSE Fail

\* an entity of a kind defined outside the modelled files
EntityDeserialize(kind, j) ==
    IF j.t = "ent" THEN Ok([kind |-> kind, id |-> j.id]) ELSE Fail

EntitySerialize(e) == JEnt(e.id)

(***************************************************************************)
(* Asset.                                                                  *)
(***************************************************************************)
AssetKeys == {"copyright", "extensions", "extras", "generator", "version"}

asset_version_default == "2.0"

\* #[serde(deny_unknown_fields)] on Asset
AssetKeysKnown(f) == DOMAIN f \subseteq AssetKeys

AssetDeserialize(j) ==
    IF j.t # "obj" THEN Fail
    ELSE IF ~AssetKeysKnown(j.o) THEN Fail
    ELSE LET f == j.o
             c == OptStringField(f, "copyright")
             e == UntypedField(f, "extensions")
             x == UntypedField(f, "extras")
             g == OptStringField(f, "generator")
             v == IF Has(f, "version") THEN StringDeserialize(f["version"])
                  ELSE Ok(asset_version_default)
         IN IF c.ok /\ e.ok /\ x.ok /\ g.ok /\ v.ok
            THEN Ok([copyright |-> c.v, extensions |-> e.v, extras |-> x.v,
                     generator |-> g.v, version |-> v.v])
            ELSE Fail

(***************************************************************************)
(* Skin.                                                                   *)
(***************************************************************************)
SkinKeys == {"extensions", "extras", "inverseBindMatrices", "joints", "name",
             "skeleton"}

\* Skin without deny_unknown_fields: unknown keys are ignored
SkinKeysAny(f) == TRUE

\* #[serde(deny_unknown_fields)] on Skin
SkinKeysKnown(f) == DOMAIN f \subseteq SkinKeys

\* joints: Vec<Index<scene::Node<E, X>>>
JointsDeserialize(j) ==
    IF j.t # "arr" THEN Fail
    ELSE VecCollect([i \in DOMAIN j.a |-> IndexDeserialize("nodes", j.a[i])])

SkinDeserialize(j) ==
    IF j.t # "obj" THEN Fail
    ELSE IF ~SkinKeysKnown(j.o) THEN Fail
    ELSE IF ~Has(j.o, "joints") THEN Fail
    ELSE LET f == j.o
             e == UntypedField(f, "extensions")
             x == UntypedField(f, "extras")
             m == OptIndexField(f, "inverseBindMatrices", "accessors")
             js == JointsDeserialize(f["joints"])
             n == OptStringField(f, "name")
             s == OptIndexField(f, "skeleton", "nodes")
         IN IF e.ok /\ x.ok /\ m.ok /\ js.ok /\ n.ok /\ s.ok
            THEN Ok([extensions |-> e.v, extras |-> x.v,
                     inverse_bind_matrices |-> m.v, joints |-> js.v,
                     name |-> n.v, skeleton |-> s.v])
            ELSE Fail

(***************************************************************************)
(* Root.                                                                   *)
(***************************************************************************)
\* the entity collections of Root, by field name
Kinds == {"accessors", "animations", "buffers", "buffer_views", "cameras",
          "images", "materials", "meshes", "nodes", "samplers", "scenes",
          "skins", "textures"}

\* the document key of a Root field (#[serde(rename = ...)])
JsonKey(field) ==
    CASE field = "buffer_views" -> "bufferViews"
      [] field = "extensions_used" -> "extensionsUsed"
      [] field = "extensions_required" -> "extensionsRequired"
      [] OTHER -> field

CollectionKeys == {JsonKey(k) : k \in Kinds}

RootKeys == CollectionKeys \cup
            {"asset", "extensionsUsed", "extensionsRequired", "scene"}

\* #[serde(deny_unknown_fields)] on Root
RootKeysKnown(f) == DOMAIN f \subseteq RootKeys

root_scene_default == IndexNew("scenes", U32Of(0))

\* a Vec<T> field without #[serde(default)]: a missing key is an error
EntitiesFieldRequired(f, kind) ==
    IF ~Has(f, JsonKey(kind)) THEN Fail
    ELSE LET j == f[JsonKey(kind)]
         IN IF j.t # "arr" THEN Fail
            ELSE VecCollect([i \in DOMAIN j.a |-> EntityDeserialize(kind, j.a[i])])

\* #[serde(default)] Vec<T> for an entity kind T other than Skin
EntitiesField(f, kind) ==
    IF ~Has(f, JsonKey(kind)) THEN Ok(<<>>)
    ELSE LET j == f[JsonKey(kind)]
         IN IF j.t # "arr" THEN Fail
            ELSE VecCollect([i \in DOMAIN j.a |-> EntityDeserialize(kind, j.a[i])])

\* #[serde(default)] skins: Vec<skin::Skin<E, X>>
SkinsField(f) ==
    IF ~Has(f, "skins") THEN Ok(<<>>)
    ELSE IF f["skins"].t # "arr" THEN Fail
    ELSE VecCollect([i \in DOMAIN f["skins"].a |-> SkinDeserialize(f["skins"].a[i])])

\* #[serde(default)] Vec<String>
StringsField(f, k) ==
    IF ~Has(f, k) THEN Ok(<<>>)
    ELSE IF f[k].t # "arr" THEN Fail
    ELSE VecCollect([i \in DOMAIN f[k].a |-> StringDeserialize(f[k].a[i])])

\* #[serde(default = "root_scene_default")] scene
SceneField(f) ==
    IF ~Has(f, "scene") THEN Ok(root_scene_default)
    ELSE IndexDeserialize("scenes", f["scene"])

\* the derived Deserialize of Root, on a JSON object
RootDeserialize(j) ==
    IF j.t # "obj" THEN Fail
    ELSE IF ~RootKeysKnown(j.o) THEN Fail
    ELSE IF ~Has(j.o, "asset") THEN Fail
    ELSE LET f == j.o
             ent == [k \in Kinds \ {"skins"} |-> EntitiesField(f, k)]
             a == AssetDeserialize(f["asset"])
             eu == StringsField(f, "extensionsUsed")
             er == StringsField(f, "extensionsRequired")
             sc == SceneField(f)
             sk == SkinsField(f)
         IN IF /\ \A k \in Kinds \ {"skins"} : ent[k].ok
               /\ a.ok /\ eu.ok /\ er.ok /\ sc.ok /\ sk.ok
            THEN Ok([accessors |-> ent["accessors"].v,
                     animations |-> ent["animations"].v,
                     asset |-> a.v,
                     buffers |-> ent["buffers"].v,
                     buffer_views |-> ent["buffer_views"].v,
                     extensions_used |-> eu.v,
                     extensions_required |-> er.v,
                     cameras |-> ent["cameras"].v,
                     images |-> ent["images"].v,
                     materials |-> ent["materials"].v,
                     meshes |-> ent["meshes"].v,
                     nodes |-> ent["nodes"].v,
                     samplers |-> ent["samplers"].v,
                     scene |-> sc.v,
                     scenes |-> ent["scenes"].v,
                     skins |-> sk.v,
                     textures |-> ent["textures"].v])
            ELSE Fail

\* text that is not JSON
Malformed == [t |-> "malformed"]

\* serde_json::from_str::<Root<E, X>>
FromStr(d) == IF d.t = "malformed" THEN Fail ELSE RootDeserialize(d)

\* Root::indices_are_valid
indices_are_valid(root) == TRUE

ErrDeserialize == [ok |-> FALSE, err |-> "Deserialize"]
ErrInvalid == [ok |-> FALSE, err |-> "Invalid"]

\* Root::import_from_str
import_from_str(json) ==
    LET r == FromStr(json)
    IN IF ~r.ok THEN ErrDeserialize
       ELSE IF indices_are_valid(r.v) THEN Ok(r.v)
       ELSE ErrInvalid

(***************************************************************************)
(* Dereferencing an Index.                                                 *)
(***************************************************************************)
Panic == [tag |-> "panic"]
NoImpl == [tag |-> "no impl"]
Elem(e) == [tag |-> "elem", v |-> e]

\* &vec[raw as usize]: a bounds-checked positional access, which panics out
\* of range (collections of the model are shorter than 2^16)
IndexVec(vec, raw) ==
    IF raw[1] = 0 /\ raw[2] < Len(vec) THEN Elem(vec[raw[2] + 1]) ELSE Panic

\* Root::accessor, Root::animation, ..., Root::texture
Accessor(root, ix) == IndexVec(root[ix.kind], ix.raw)

\* the kinds impl_get! is invoked for
GetKinds == {"accessors", "animations", "buffers", "buffer_views", "cameras",
             "images", "materials", "meshes", "nodes", "scenes", "skins",
             "textures"}

\* Root::get, dispatched on the Index's type parameter through traits::Get;
\* a kind without an impl is one the call does not compile for
Get(root, ix) ==
    IF ix.kind \in GetKinds THEN IndexVec(root[ix.kind], IndexValue(ix))
    ELSE NoImpl

\* every Index a Root holds
SkinIndices(s) ==
    Range(s.joints)
    \cup (IF s.skeleton.some THEN {s.skeleton.v} ELSE {})
    \cup (IF s.inverse_bind_matrices.some THEN {s.inverse_bind_matrices.v}
          ELSE {})

StoredIndices(root) ==
    {root.scene} \cup UNION {SkinIndices(root.skins[i]) : i \in DOMAIN root.skins}

InRange(root, ix) == ix.raw[1] = 0 /\ ix.raw[2] < Len(root[ix.kind])

(***************************************************************************)
(* The derived Serialize impls: every field is written, in declaration     *)
(* order, under its document key (no field is skipped).                    *)
(***************************************************************************)
OptStringSerialize(o) == IF o.some THEN JStr(o.v) ELSE JNull
UntypedSerialize(o) == IF o.some THEN JObj(o.v) ELSE JNull
OptIndexSerialize(o) == IF o.some THEN IndexSerialize(o.v) ELSE JNull

AssetSerialize(a) ==
    JObj([k \in AssetKeys |->
            CASE k = "copyright" -> OptStringSerialize(a.copyright)
              [] k = "extensions" -> UntypedSerialize(a.extensions)
              [] k = "extras" -> UntypedSerialize(a.extras)
              [] k = "generator" -> OptStringSerialize(a.generator)
              [] k = "version" -> JStr(a.version)])

SkinSerialize(s) ==
    JObj([k \in SkinKeys |->
            CASE k = "extensions" -> UntypedSerialize(s.extensions)
              [] k = "extras" -> UntypedSerialize(s.extras)
              [] k = "inverseBindMatrices" ->
                    OptIndexSerialize(s.inverse_bind_matrices)
              [] k = "joints" ->
                    JArr([i \in DOMAIN s.joints |-> IndexSerialize(s.joints[i])])
              [] k = "name" -> OptStringSerialize(s.name)
              [] k = "skeleton" -> OptIndexSerialize(s.skeleton)])

RootFields == Kinds \cup
              {"asset", "extensions_used", "extensions_required", "scene"}

RootFieldSerialize(root, fld) ==
    CASE fld = "asset" -> AssetSerialize(root.asset)
      [] fld = "scene" -> IndexSerialize(root.scene)
      [] fld \in {"extensions_used", "extensions_required"} ->
            JArr([i \in DOMAIN root[fld] |-> JStr(root[fld][i])])
      [] fld = "skins" ->
            JArr([i \in DOMAIN root.skins |-> SkinSerialize(root.skins[i])])
      [] OTHER ->
            JArr([i \in DOMAIN root[fld] |-> EntitySerialize(root[fld][i])])

RootSerialize(root) ==
    JObj([k \in RootKeys |->
            RootFieldSerialize(root, CHOOSE fld \in RootFields : JsonKey(fld) = k)])

(***************************************************************************)
(* Enumeration codecs.  A table is the macro's list `$variant = $value`,   *)
(* a sequence of [variant, value]; the values of a token table are         *)
(* strings, those of a code table u32 constants.                           *)
(***************************************************************************)
Text(s) == [t |-> "text", s |-> s]
Custom(pieces) == [ok |-> FALSE, kind |-> "custom", msg |-> pieces]
InvalidType(unexp, exp) ==
    [ok |-> FALSE, kind |-> "invalid_type",
     msg |-> <<Text("invalid type: "), unexp, Text(", expected ")>> \o exp]

\* the arm a match takes: the first of the arms whose pattern the value equals
FirstArm(arms) == CHOOSE i \in arms : \A k \in arms : i <= k

\* the arm of `match *self`
ArmOf(table, variant) == CHOOSE i \in DOMAIN table : table[i].variant = variant

\* impl_enum_string: Visitor::expecting writes every `$value`, each followed
\* by a newline
EnumStringExpecting(table) ==
    [n \in 1..(2 * Len(table)) |->
        IF n % 2 = 1 THEN JStr(table[(n + 1) \div 2].value) ELSE Text("\n")]

\* impl_enum_string: Visitor::visit_str
EnumStringVisitStr(table, value) ==
    LET arms == {i \in DOMAIN table : table[i].value = value}
    IN IF arms # {} THEN Ok(table[FirstArm(arms)].variant)
       ELSE Custom(<<Text("invalid value: "), JStr(value)>>)

\* impl_enum_string: deserialize; deserialize_str hands a JSON string to
\* visit_str, and any other JSON value to a default visit_* method
EnumStringDeserialize(table, j) ==
    IF j.t = "str" THEN EnumStringVisitStr(table, j.s)
    ELSE InvalidType(j, EnumStringExpecting(table))

\* serialize writing the variant's name instead of its `$value`
EnumStringSerializeName(table, variant) == JStr(variant)

\* impl_enum_string: serialize
EnumStringSerialize(table, variant) ==
    JStr(table[ArmOf(table, variant)].value)

\* impl_enum_u32: Visitor::expecting
EnumU32Expecting == <<Text("GLenum")>>

\* impl_enum_u32: Visitor::visit_u64
EnumU32VisitU64(table, value) ==
    LET arms == {i \in DOMAIN table : AsU64(table[i].value) = value}
    IN IF arms # {} THEN Ok(table[FirstArm(arms)].variant)
       ELSE Custom(<<Text("invalid value: "), JU64(value)>>)

\* impl_enum_u32: deserialize
EnumU32Deserialize(table, j) ==
    IF j.t = "u64" THEN EnumU32VisitU64(table, j.n)
    ELSE InvalidType(j, EnumU32Expecting)

\* impl_enum_u32: serialize, `*self as u64` of a #[repr(u32)] enum
EnumU32Serialize(table, variant) ==
    JU64(AsU64(table[ArmOf(table, variant)].value))

EnumDeserialize(codec, table, j) ==
    IF codec = "token" THEN EnumStringDeserialize(table, j)
    ELSE EnumU32Deserialize(table, j)

EnumSerialize(codec, table, variant) ==
    IF codec = "token" THEN EnumStringSerialize(table, variant)
    ELSE EnumU32Serialize(table, variant)

(***************************************************************************)
(* Inputs.                                                                 *)
(***************************************************************************)
\* 2^32, the least u64 that `as u32` changes
Wrap == <<0, 1, 0, 0>>

LimbSamples == {0, 1, LimbMax}
U64Samples == {<<a, b, c, d>> : a \in LimbSamples, b \in LimbSamples,
                                c \in LimbSamples, d \in LimbSamples}

\* the partial objects {} and {k: v}, v in S
Opt(k, S) == {NoKeys} \cup {k :> v : v \in S}

\* n distinct entity objects
Ents(n) == [i \in 1..n |-> JEnt(i)]

IdxJoint == {JU64(U64Of(0)), JU64(U64Of(MaxIdx)), JU64(Wrap)}
IdxScene == {JU64(U64Of(n)) : n \in 0..MaxIdx} \cup {JU64(Wrap), JNeg}

OpenPayload == JObj("KHR_x" :> JObj("a" :> JStr("b")))

SkinDecor == {NoKeys,
              "name" :> JStr("s"),
              "extensions" :> OpenPayload,
              "extras" :> OpenPayload,
              "foo" :> JNull,
              ("extras" :> OpenPayload) @@ ("foo" :> JNull)}

SkinObjs ==
    {JObj(j @@ s @@ m @@ d) :
        j \in Opt("joints", {JArr(q) : q \in UNION {[1..n -> IdxJoint] : n \in 0..MaxJoints}}),
        s \in Opt("skeleton", {JNull, JU64(U64Of(1)), JU64(Wrap)}),
        m \in Opt("inverseBindMatrices", {JU64(U64Of(0)), JU64(U64Of(1))}),
        d \in SkinDecor}

MinimalAsset == "asset" :> JObj(NoKeys)

\* documents with one skin, over node collections of every length
SkinDocs ==
    {JObj(MinimalAsset @@ ("skins" :> JArr(<<s>>))
          @@ ("accessors" :> JArr(Ents(1))) @@ n) :
        s \in SkinObjs,
        n \in Opt("nodes", {JArr(Ents(k)) : k \in 0..MaxLen})}

\* a collection of n entities of a kind
Collection(kind, n) ==
    IF kind = "skins" THEN JArr([i \in 1..n |-> JObj("joints" :> JArr(<<>>))])
    ELSE JArr(Ents(n))

\* documents that hold some of the collections and leave out the others
PresenceDocs ==
    {JObj(MinimalAsset @@ sc
          @@ [k \in {JsonKey(fld) : fld \in P} |->
                Collection(CHOOSE fld \in P : JsonKey(fld) = k,
                           len[CHOOSE fld \in P : JsonKey(fld) = k])]) :
        <<P, len, sc>> \in
            UNION {{<<Q, l, c>> : l \in [Q -> 0..MaxLen], c \in Opt("scene", IdxScene)} :
                   Q \in {R \in SUBSET Kinds : Cardinality(R) <= MaxPresent}}}

AssetObjs ==
    {JObj(c @@ e @@ x @@ v @@ u) :
        c \in Opt("copyright", {JStr("c")}),
        e \in Opt("extensions", {OpenPayload}),
        x \in Opt("extras", {OpenPayload, JNull}),
        v \in Opt("version", {JStr("2.0"), JStr("1.0")}),
        u \in Opt("foo", {JNull})}

\* documents that vary the asset, the extension lists and an unknown key
AssetDocs ==
    {JObj(a @@ u @@ eu) :
        a \in Opt("asset", AssetObjs \cup {JNull}),
        u \in Opt("foo", {JNull}),
        eu \in Opt("extensionsUsed", {JArr(<<JStr("KHR_x")>>)})}

Docs == SkinDocs \cup PresenceDocs \cup AssetDocs \cup {Malformed}

TokenUniverse == <<[variant |-> "Scalar", value |-> "SCALAR"],
                   [variant |-> "Vec2", value |-> "VEC2"],
                   [variant |-> "Vec3", value |-> "VEC3"],
                   [variant |-> "Mat4", value |-> "MAT4"]>>

CodeUniverse == <<[variant |-> "I8", value |-> U32Of(5120)],
                  [variant |-> "U8", value |-> U32Of(5121)],
                  [variant |-> "F32", value |-> U32Of(5126)],
                  [variant |-> "Wide", value |-> <<1, 5120>>]>>

\* the tables of at most MaxTable entries, pairwise distinct
TablesOf(universe) ==
    {[i \in 1..n |-> universe[p[i]]] :
        <<n, p>> \in UNION {{<<m, q>> : q \in {r \in [1..m -> DOMAIN universe] :
                                          \A a, b \in 1..m : a # b => r[a] # r[b]}} :
                            m \in 1..MaxTable}}

TokenInputs == {JStr(TokenUniverse[i].value) : i \in DOMAIN TokenUniverse}
               \cup {JStr("BAD"), JStr("scalar"), JU64(U64Of(5120)), JNull}

CodeInputs == {JU64(AsU64(CodeUniverse[i].value)) : i \in DOMAIN CodeUniverse}
              \cup {JU64(U64Of(0)), JU64(<<0, 1, 0, 5120>>), JStr("SCALAR"), JNeg}

(***************************************************************************)
(* The state machine: one input, and the operations applied to it.         *)
(***************************************************************************)
InitDoc == input \in {[kind |-> "doc", doc |-> d] : d \in Docs}

InitIndex ==
    input \in {[kind |-> "index", j |-> j] :
                 j \in {JU64(n) : n \in U64Samples} \cup {JNeg, JStr("0"), JNull}}

InitEnumDe ==
    \/ input \in {[kind |-> "enum_de", codec |-> "token", table |-> tb, j |-> j] :
                    tb \in TablesOf(TokenUniverse), j \in TokenInputs}
    \/ input \in {[kind |-> "enum_de", codec |-> "code", table |-> tb, j |-> j] :
                    tb \in TablesOf(CodeUniverse), j \in CodeInputs}

InitEnumSer ==
    \/ input \in UNION {{[kind |-> "enum_ser", codec |-> "token", table |-> tb,
                          variant |-> tb[i].variant] : i \in DOMAIN tb} :
                        tb \in TablesOf(TokenUniverse)}
    \/ input \in UNION {{[kind |-> "enum_ser", codec |-> "code", table |-> tb,
                          variant |-> tb[i].variant] : i \in DOMAIN tb} :
                        tb \in TablesOf(CodeUniverse)}

Init ==
    /\ InitDoc \/ InitIndex \/ InitEnumDe \/ InitEnumSer
    /\ pc = "init"
    /\ result = Nothing
    /\ fetched = Nothing
    /\ encoded = Nothing

\* Root::import_from_str on the document
ImportFromStr ==
    /\ pc = "init" /\ input.kind = "doc"
    /\ result' = import_from_str(input.doc)
    /\ pc' = "imported"
    /\ UNCHANGED <<input, fetched, encoded>>

\* the Index values a caller dereferences: those the Root holds, and the
\* first slot of every kind
FetchArgs(root) == StoredIndices(root) \cup {IndexNew(k, U32Of(0)) : k \in Kinds}

\* a per-kind accessor (Root::accessor, ..., Root::texture) on the Root
FetchByAccessor ==
    /\ pc = "imported" /\ result.ok
    /\ \E ix \in FetchArgs(result.v) :
          fetched' = [via |-> "accessor", index |-> ix,
                      stored |-> ix \in StoredIndices(result.v),
                      out |-> Accessor(result.v, ix)]
    /\ pc' = "fetched"
    /\ UNCHANGED <<input, result, encoded>>

\* Root::get on the Root
FetchByGet ==
    /\ pc = "imported" /\ result.ok
    /\ \E ix \in FetchArgs(result.v) :
          fetched' = [via |-> "get", index |-> ix,
                      stored |-> ix \in StoredIndices(result.v),
                      out |-> Get(result.v, ix)]
    /\ pc' = "fetched"
    /\ UNCHANGED <<input, result, encoded>>

\* the derived Serialize of the imported Root
SerializeRoot ==
    /\ pc = "imported" /\ result.ok
    /\ encoded' = RootSerialize(result.v)
    /\ pc' = "serialized"
    /\ UNCHANGED <<input, result, fetched>>

\* Index::deserialize on a JSON value
DecodeIndex ==
    /\ pc = "init" /\ input.kind = "index"
    /\ result' = IndexDeserialize("nodes", input.j)
    /\ pc' = "index_decoded"
    /\ UNCHANGED <<input, fetched, encoded>>

\* Index::serialize on the decoded Index
EncodeIndex ==
    /\ pc = "index_decoded" /\ result.ok
    /\ encoded' = IndexSerialize(result.v)
    /\ pc' = "index_encoded"
    /\ UNCHANGED <<input, result, fetched>>

\* an enum's deserialize on a JSON value
DecodeEnum ==
    /\ pc = "init" /\ input.kind = "enum_de"
    /\ result' = EnumDeserialize(input.codec, input.table, input.j)
    /\ pc' = "enum_decoded"
    /\ UNCHANGED <<input, fetched, encoded>>

\* an enum's serialize on an enumerator
EncodeEnum ==
    /\ pc = "init" /\ input.kind = "enum_ser"
    /\ encoded' = EnumSerialize(input.codec, input.table, input.variant)
    /\ pc' = "enum_encoded"
    /\ UNCHANGED <<input, result, fetched>>

\* an enum's deserialize on what its serialize wrote
DecodeEncodedEnum ==
    /\ pc = "enum_encoded"
    /\ result' = EnumDeserialize(input.codec, input.table, encoded)
    /\ pc' = "enum_roundtrip"
    /\ UNCHANGED <<input, fetched, encoded>>

Next ==
    \/ ImportFromStr
    \/ FetchByAccessor
    \/ FetchByGet
    \/ SerializeRoot
    \/ DecodeIndex
    \/ EncodeIndex
    \/ DecodeEnum
    \/ EncodeEnum
    \/ DecodeEncodedEnum

Spec == Init /\ [][Next]_vars

(***************************************************************************)
(* Properties.                                                             *)
(***************************************************************************)
\* a u32 and a u64 that denote the same number
SameNumber(w, v) == v[1] = 0 /\ v[2] = 0 /\ v[3] = w[1] /\ v[4] = w[2]

Imported == input.kind = "doc" /\ pc \in {"imported", "fetched", "serialized"}

\* C1: import_from_str fails with ImportError::Invalid for every document
\* that decodes but holds an Index not below the length of the collection
\* its type designates; every Root returned as Ok has all its Index values
\* in range.
C1_OutOfRangeIsInvalid ==
    Imported =>
        /\ (/\ FromStr(input.doc).ok
            /\ \E ix \in StoredIndices(FromStr(input.doc).v) :
                  ~InRange(FromStr(input.doc).v, ix))
           => result = ErrInvalid
        /\ result.ok => \A ix \in StoredIndices(result.v) : InRange(result.v, ix)

\* C2: for every v below 2^32, decoding an Index from the integer v and
\* calling value() returns exactly v.
C2_IndexValueRoundTrip ==
    (/\ input.kind = "index"
     /\ pc \in {"index_decoded", "index_encoded"}
     /\ input.j.t = "u64"
     /\ input.j.n[1] = 0 /\ input.j.n[2] = 0)
    => /\ result.ok
       /\ SameNumber(IndexValue(result.v), input.j.n)

\* C2 witness: 2^32 - 1 was decoded and value() is 2^32 - 1.
C2_Witness ==
    /\ pc = "index_decoded"
    /\ input.j = JU64(<<0, 0, LimbMax, LimbMax>>)
    /\ result.ok
    /\ IndexValue(result.v) = <<LimbMax, LimbMax>>

\* C3: for every u64 n the Index decoder accepts, encoding the decoded Index
\* emits the identical integer n.
C3_IndexEncodesSameInteger ==
    (input.kind = "index" /\ pc = "index_encoded") => encoded = input.j

\* the input of an enum decode is of the codec's type and in no arm of the
\* table
NotInTable ==
    IF input.codec = "token"
    THEN /\ input.j.t = "str"
         /\ \A i \in DOMAIN input.table : input.table[i].value # input.j.s
    ELSE /\ input.j.t = "u64"
         /\ \A i \in DOMAIN input.table :
               ~SameNumber(input.table[i].value, input.j.n)

Mentions(msg, piece) == \E i \in DOMAIN msg : msg[i] = piece

\* C4: decoding an input that is not in the enum's table always fails and
\* never yields an enumerator; the error names the rejected value, and for
\* the token codec it also enumerates every accepted token of the table.
C4_UnknownInputError ==
    (input.kind = "enum_de" /\ pc = "enum_decoded" /\ NotInTable)
    => /\ ~result.ok
       /\ Mentions(result.msg, input.j)
       /\ input.codec = "token" =>
             \A i \in DOMAIN input.table :
                 Mentions(result.msg, JStr(input.table[i].value))

\* the table's representation of the input enumerator
TableValue ==
    input.table[CHOOSE i \in DOMAIN input.table :
                    input.table[i].variant = input.variant].value

\* C5: encoding an enumerator emits exactly its table representation (the
\* string, or the constant as a u64), and decoding that representation
\* yields the same enumerator.
C5_EnumRoundTrip ==
    input.kind = "enum_ser" =>
        /\ pc \in {"enum_encoded", "enum_roundtrip"} =>
              IF input.codec = "token"
              THEN encoded = JStr(TableValue)
              ELSE encoded.t = "u64" /\ SameNumber(TableValue, encoded.n)
        /\ pc = "enum_roundtrip" => result = Ok(input.variant)

\* C5 witness: the second enumerator of a code table went through serialize
\* and deserialize and came back.
C5_Witness ==
    /\ input.kind = "enum_ser" /\ pc = "enum_roundtrip"
    /\ input.codec = "code"
    /\ Len(input.table) >= 2
    /\ input.variant = input.table[2].variant
    /\ result = Ok(input.variant)

\* the document with every absent collection key written as an empty array
\* and an absent `scene` written as 0
Filled(d) ==
    JObj(d.o @@ [k \in CollectionKeys \cup {"scene"} |->
                    IF k = "scene" THEN JU64(U64Of(0)) ELSE JArr(<<>>)])

C7_EncodeDecodeIsIdentity ==
    (Imported /\ pc = "serialized") => encoded = input.doc

\* an object's keys, outside the fields of the struct it decodes to
UnknownIn(j, keys) == j.t = "obj" /\ ~(DOMAIN j.o \subseteq keys)

HasUnknownField(d) ==
    \/ UnknownIn(d, RootKeys)
    \/ Has(d.o, "asset") /\ UnknownIn(d.o["asset"], AssetKeys)
    \/ /\ Has(d.o, "skins") /\ d.o["skins"].t = "arr"
       /\ \E i \in DOMAIN d.o["skins"].a : UnknownIn(d.o["skins"].a[i], SkinKeys)

\* an object with the payload of its extensions / extras slots removed
EmptySlots(j) ==
    IF j.t # "obj" THEN j
    ELSE JObj([k \in DOMAIN j.o |->
                 IF k \in {"extensions", "extras"} /\ j.o[k].t = "obj"
                 THEN JObj(NoKeys) ELSE j.o[k]])

EmptiedDoc(d) ==
    JObj([k \in DOMAIN d.o |->
            CASE k = "asset" -> EmptySlots(d.o[k])
              [] k = "skins" /\ d.o[k].t = "arr" ->
                    JArr([i \in DOMAIN d.o[k].a |-> EmptySlots(d.o[k].a[i])])
              [] OTHER -> d.o[k]])

\* C8: a document with an unknown field at the top level, inside `asset` or
\* inside a skin fails with a decode error; the keys inside an `extensions`
\* or `extras` object never decide whether the document is accepted.
C8_ClosedSchemaOpenSlots ==
    (Imported /\ input.doc.t = "obj") =>
        /\ HasUnknownField(input.doc) => result = ErrDeserialize
        /\ result.ok = import_from_str(EmptiedDoc(input.doc)).ok

\* C8 witness: a skin with an unknown field next to a non-empty extras
\* object was rejected with a decode error.
C8_Witness ==
    /\ Imported /\ input.doc.t = "obj"
    /\ Has(input.doc.o, "skins")
    /\ \E i \in DOMAIN input.doc.o["skins"].a :
          LET sk == input.doc.o["skins"].a[i].o
          IN /\ Has(sk, "foo") /\ Has(sk, "joints")
             /\ Has(sk, "extras") /\ DOMAIN sk["extras"].o # {}
    /\ result = ErrDeserialize

\* C9: for every kind Root owns a collection of and every Index of that kind
\* below the collection's length, the generic get returns the element at
\* that position, the element the per-kind accessor returns.
C9_GetIsAccessor ==
    (/\ Imported /\ pc = "fetched"
     /\ fetched.via = "get"
     /\ InRange(result.v, fetched.index))
    => /\ fetched.out = Elem(result.v[fetched.index.kind][fetched.index.raw[2] + 1])
       /\ fetched.out = Accessor(result.v, fetched.index)

\* C10: after a successful import, dereferencing an Index stored in the Root
\* through the per-kind accessor or the generic get returns an element.
C10_StoredIndexDereferences ==
    (Imported /\ pc = "fetched" /\ fetched.stored) => fetched.out.tag = "elem"

=============================================================================
